---------------------------- MODULE Spec2Model ----------------------------
(***************************************************************************)
(* A model of the two decoders of the repository:                          *)
(*                                                                         *)
(*   - wad-webui/tools/extract.py: extract_wad's chunk-table scan, the     *)
(*     payload decompression and the manifest step (SpecWad);              *)
(*   - bin-webui/tools/ritobin_mac.py: Cursor, read_value, read_prop and   *)
(*     parse_full_prop, and bin-webui/tools/bin_parser.py: parse_bin       *)
(*     (Spec).                                                             *)
(*                                                                         *)
(* Buffers are sequences of bytes (0..255); TLA+ sequences are 1-based, so *)
(* byte offset p of the source is element p + 1 here.  TLC's integers are  *)
(* 32 bits wide: a u64 is kept as the pair <<high u32, low u32>>, and the  *)
(* inputs keep every u32 below 2^31.                                       *)
(***************************************************************************)
EXTENDS Integers, Sequences, FiniteSets, TLC

VARIABLES
    \* ---- extract_wad (extract.py) ----
    wad_bytes,   \* the archive buffer (extract.py:86)
    n,           \* the loop variable of the table scan (extract.py:91)
    chunks,      \* hash -> payload, an insertion-ordered dict (extract.py:90)
    names,       \* hash -> name, an insertion-ordered dict (extract.py:103)
    wpc,         \* where extract_wad is: "scan", "names", "write", "done", "raised"
    werr,        \* the exception extract_wad raised, or "none"
    \* ---- the PROP decoders (ritobin_mac.py, bin_parser.py) ----
    mode,        \* the function called: "read_value", "parse_full_prop",
                 \* "read_prop" or "parse_bin"
    buf,         \* the bytes of the input buffer read so far (a prefix of it)
    flen,        \* len(buf) of the source once it is determined, -1 before
    hdb,         \* HashDB.idx / RiotHashUnhasher.hash_map: hash -> name
    pos,         \* Cursor.pos (ritobin_mac.py:72) / buf.tell() (bin_parser.py)
    pc,          \* where the called function is
    loc,         \* the local variables of the called function
    stack,       \* the active read_value calls, innermost last
    ret,         \* the value the last finished read_value call returned
    st,          \* "run", "done" (returned) or "raised"
    err,         \* the exception raised
    result       \* the value the called function returned

wadvars == <<wad_bytes, n, chunks, names, wpc, werr>>

binvars == <<mode, buf, flen, hdb, pos, pc, loc, stack, ret, st, err, result>>

vars == <<wad_bytes, n, chunks, names, wpc, werr,
          mode, buf, flen, hdb, pos, pc, loc, stack, ret, st, err, result>>

-----------------------------------------------------------------------------
(* Bytes and little-endian integers (struct "<I", "<Q", "<H", "<B").       *)

Min(a, b) == IF a < b THEN a ELSE b

\* bytes[a:b] of Python: clipped to the buffer, never an error.
Slice(b, from, to) ==
    LET hi == Min(to, Len(b))
    IN  IF from >= hi THEN <<>> ELSE SubSeq(b, from + 1, hi)

StartsWith(b, prefix) ==
    /\ Len(b) >= Len(prefix)
    /\ SubSeq(b, 1, Len(prefix)) = prefix

U8At(b, p)  == b[p + 1]
U16At(b, p) == b[p + 1] + 256 * b[p + 2]
U32At(b, p) == b[p + 1] + 256 * b[p + 2] + 65536 * b[p + 3] + 16777216 * b[p + 4]
U64At(b, p) == <<U32At(b, p + 4), U32At(b, p)>>

\* The encodings the input files are built with.
LE16(v) == <<v % 256, (v \div 256) % 256>>
LE32(v) == <<v % 256, (v \div 256) % 256, (v \div 65536) % 256, (v \div 16777216) % 256>>
LE64(h) == LE32(h[2]) \o LE32(h[1])

Zeros(k) == [i \in 1..k |-> 0]

RECURSIVE Flatten(_)
Flatten(ss) == IF ss = <<>> THEN <<>> ELSE Head(ss) \o Flatten(Tail(ss))

-----------------------------------------------------------------------------
(* Python dicts: insertion-ordered, a sequence of [k, v] pairs.            *)

DictHas(d, key) == \E i \in DOMAIN d : d[i].k = key

DictGet(d, key) == d[CHOOSE i \in DOMAIN d : d[i].k = key].v

DictKeys(d) == {d[i].k : i \in DOMAIN d}

\* A faulty variant of DictSet: the first value written under a key is kept.
DictSetKeepFirst(d, key, val) ==
    IF DictHas(d, key) THEN d ELSE Append(d, [k |-> key, v |-> val])

\* A faulty variant of DictSet: every write appends a pair.
DictSetAppend(d, key, val) == Append(d, [k |-> key, v |-> val])

\* d[key] = val: an existing key keeps its place and takes the new value.
DictSet(d, key, val) ==
    IF DictHas(d, key)
    THEN [i \in DOMAIN d |-> IF d[i].k = key THEN [k |-> key, v |-> val] ELSE d[i]]
    ELSE Append(d, [k |-> key, v |-> val])

RECURSIVE DictUpdate(_, _)
DictUpdate(d, other) ==
    IF other = <<>> THEN d
    ELSE DictUpdate(DictSet(d, Head(other).k, Head(other).v), Tail(other))

-----------------------------------------------------------------------------
(* extract.py: the archive layout and the input archives.                  *)

TABLE_OFFSET == 288
ENTRY_SIZE   == 16
\* The scan bound; 50_000 in extract.py:25, scaled down so that a table
\* longer than the bound fits the model.
MAX_CHUNKS   == 2
ZSTD_MAGIC    == <<40, 181, 47, 253>>
MANIFEST_HASH == <<3, 384>>
\* b"pathHashes\x00"
MANIFEST_MAGIC == <<112, 97, 116, 104, 72, 97, 115, 104, 101, 115, 0>>

\* The input archives hold one table slot more than the scan bound, then
\* the payload area.
MaxTable == MAX_CHUNKS + 1
PayBase  == TABLE_OFFSET + ENTRY_SIZE * MaxTable

H0 == <<0, 0>>
H1 == <<0, 1>>
H2 == <<0, 2>>
\* A hash the manifest of the input archives names.
H7 == <<0, 7>>

\* The payload area of the input archives: two plain payloads ("DDS " and
\* "PROP"), one compressed frame (7 bytes) and one manifest chunk (33 bytes:
\* marker, 1 byte of alignment, 4 skipped bytes, count = 1, one record with a
\* 1-byte path).
PlainA == <<68, 68, 83, 32>>
PlainB == <<80, 82, 79, 80>>
ZFrame == ZSTD_MAGIC \o <<2, 68, 68>>
ManifestChunk ==
    MANIFEST_MAGIC \o <<0>> \o <<0, 0, 0, 0>> \o LE32(1) \o LE64(H7) \o LE32(1) \o <<97>>
PayloadArea == PlainA \o PlainB \o ZFrame \o ManifestChunk

ZeroEntry == [h |-> H0, loc |-> 0, size |-> 0]

\* The table entries the input archives are built from.
EntryChoices ==
    { ZeroEntry,
      [h |-> H1, loc |-> PayBase,      size |-> 4],    \* PlainA
      [h |-> H1, loc |-> PayBase + 4,  size |-> 4],    \* PlainB, same hash
      [h |-> H0, loc |-> PayBase,      size |-> 4],    \* hash 0, not a zero entry
      [h |-> H2, loc |-> PayBase,      size |-> 0],    \* size 0
      [h |-> H2, loc |-> PayBase + 40, size |-> 16],   \* runs past the buffer end
      [h |-> H2, loc |-> PayBase + 8,  size |-> 7],    \* a compressed frame
      [h |-> H2, loc |-> PayBase + 8,  size |-> 6],    \* the frame, cut short
      [h |-> MANIFEST_HASH, loc |-> PayBase + 15, size |-> 33],  \* the manifest
      [h |-> MANIFEST_HASH, loc |-> PayBase + 15, size |-> 30],  \* its record cut short
      [h |-> MANIFEST_HASH, loc |-> PayBase,      size |-> 4] }  \* no marker

EntryBytes(e) == LE64(e.h) \o LE32(e.loc) \o LE32(e.size)

\* The lengths an input archive is cut to: whole, empty, or ending in the
\* middle of table slot k.
Cuts == {0, PayBase + Len(PayloadArea)}
            \cup {TABLE_OFFSET + ENTRY_SIZE * k + 8 : k \in 0..(MaxTable - 1)}

WadInputs ==
    { SubSeq(Zeros(TABLE_OFFSET)
               \o Flatten([i \in 1..MaxTable |-> EntryBytes(t[i])])
               \o PayloadArea, 1, c) :
        t \in [1..MaxTable -> EntryChoices], c \in Cuts }

-----------------------------------------------------------------------------
(* extract.py: helpers.                                                    *)

\* zstd.ZstdDecompressor().decompress, an external library: it returns the
\* content of a well-formed frame and raises ZstdError on anything else.
\* The stand-in frame is the magic, one length byte and that many bytes.
ZstdDecompress(data) ==
    IF Len(data) >= 5 /\ Len(data) = 5 + data[5]
    THEN [ok |-> TRUE,  out |-> SubSeq(data, 6, Len(data))]
    ELSE [ok |-> FALSE, out |-> <<>>]

\* _maybe_decompress
MaybeDecompress(data) ==
    IF StartsWith(data, ZSTD_MAGIC) THEN ZstdDecompress(data)
    ELSE [ok |-> TRUE, out |-> data]

\* bytes.find: the lowest offset at which sub occurs, or -1.
Find(b, sub) ==
    LET hits == {p \in 0..(Len(b) - Len(sub)) : SubSeq(b, p + 1, p + Len(sub)) = sub}
    IN  IF hits = {} THEN -1 ELSE CHOOSE p \in hits : \A q \in hits : p <= q

\* bytes.decode("utf-8", "replace") on the bytes of the inputs: an ASCII
\* byte is its own code point, any other byte becomes U+FFFD.
Utf8Replace(b) == [i \in DOMAIN b |-> IF b[i] < 128 THEN b[i] ELSE 65533]

\* The record loop of _parse_manifest (extract.py:67-72).
RECURSIVE ManifestRecords(_, _, _, _)
ManifestRecords(chunk, p, count, out) ==
    IF count = 0 THEN [ok |-> TRUE, out |-> out]
    ELSE IF p + 12 > Len(chunk) THEN [ok |-> FALSE, out |-> <<>>]   \* struct.error
    ELSE LET h      == U64At(chunk, p)
             strlen == U32At(chunk, p + 8)
             s      == Utf8Replace(Slice(chunk, p + 12, p + 12 + strlen))
         IN  ManifestRecords(chunk, p + 12 + strlen, count - 1, DictSet(out, h, s))

\* _parse_manifest
ParseManifest(chunk) ==
    LET found == Find(chunk, MANIFEST_MAGIC)
        p     == (((found + Len(MANIFEST_MAGIC) + 3) \div 4) * 4) + 4
    IN  IF found = -1 THEN [ok |-> TRUE, out |-> <<>>]
        ELSE IF p + 4 > Len(chunk) THEN [ok |-> FALSE, out |-> <<>>]   \* struct.error
        ELSE ManifestRecords(chunk, p + 4, U32At(chunk, p), <<>>)

\* _load_hash_table with neither hash-table file present (extract.py:46-47).
LoadHashTable == <<>>

-----------------------------------------------------------------------------
(* extract.py: extract_wad.                                                *)

wad_size == Len(wad_bytes)

off == TABLE_OFFSET + n * ENTRY_SIZE

\* struct.unpack_from("<QII", wad_bytes, o)
EntryAt(o) == [h    |-> U64At(wad_bytes, o),
               loc  |-> U32At(wad_bytes, o + 8),
               size |-> U32At(wad_bytes, o + 12)]

\* A faulty variant of PastEnd: only the first byte of the entry has to fit.
PastEndFirstByte(o) == o + 1 > wad_size

\* extract.py:93
PastEnd(o) == o + ENTRY_SIZE > wad_size

\* A faulty variant of IsZeroEntry: a zero hash alone ends the table.
IsZeroHash(e) == e.h = H0

\* extract.py:96, not any((h, loc, size))
IsZeroEntry(e) == e.h = H0 /\ e.loc = 0 /\ e.size = 0

\* A faulty variant of IsCorrupt: the span is not checked against the buffer.
IsCorruptSizeOnly(e) == e.size = 0

\* extract.py:98
IsCorrupt(e) == e.size = 0 \/ e.loc + e.size > wad_size

\* wad_bytes[loc:loc+size]
Payload(e) == Slice(wad_bytes, e.loc, e.loc + e.size)

WadRaise(what) ==
    /\ wpc' = "raised"
    /\ werr' = what
    /\ UNCHANGED <<wad_bytes, n, chunks, names, binvars>>

\* range(MAX_CHUNKS) is exhausted.
ScanExhausted ==
    /\ wpc = "scan"
    /\ n >= MAX_CHUNKS
    /\ wpc' = "names"
    /\ UNCHANGED <<wad_bytes, n, chunks, names, werr, binvars>>

\* extract.py:93-94
ScanPastEnd ==
    /\ wpc = "scan"
    /\ n < MAX_CHUNKS
    /\ PastEnd(off)
    /\ wpc' = "names"
    /\ UNCHANGED <<wad_bytes, n, chunks, names, werr, binvars>>

\* extract.py:96-97
ScanZeroEntry ==
    /\ wpc = "scan"
    /\ n < MAX_CHUNKS
    /\ ~PastEnd(off)
    /\ IsZeroEntry(EntryAt(off))
    /\ wpc' = "names"
    /\ UNCHANGED <<wad_bytes, n, chunks, names, werr, binvars>>

\* A faulty variant of ScanSkip: a corrupt entry ends the scan.
ScanSkipBreaks ==
    /\ wpc = "scan"
    /\ n < MAX_CHUNKS
    /\ ~PastEnd(off)
    /\ ~IsZeroEntry(EntryAt(off))
    /\ IsCorrupt(EntryAt(off))
    /\ wpc' = "names"
    /\ UNCHANGED <<wad_bytes, n, chunks, names, werr, binvars>>

\* extract.py:98-99
ScanSkip ==
    /\ wpc = "scan"
    /\ n < MAX_CHUNKS
    /\ ~PastEnd(off)
    /\ ~IsZeroEntry(EntryAt(off))
    /\ IsCorrupt(EntryAt(off))
    /\ n' = n + 1
    /\ UNCHANGED <<wad_bytes, chunks, names, wpc, werr, binvars>>

\* extract.py:100, the payload is plain or decompresses
ScanInsert ==
    /\ wpc = "scan"
    /\ n < MAX_CHUNKS
    /\ ~PastEnd(off)
    /\ LET e == EntryAt(off)
           d == MaybeDecompress(Payload(e))
       IN  /\ ~IsZeroEntry(e)
           /\ ~IsCorrupt(e)
           /\ d.ok
           /\ chunks' = DictSet(chunks, e.h, d.out)
    /\ n' = n + 1
    /\ UNCHANGED <<wad_bytes, names, wpc, werr, binvars>>

\* extract.py:100, _maybe_decompress raises ZstdError
ScanDecompressError ==
    /\ wpc = "scan"
    /\ n < MAX_CHUNKS
    /\ ~PastEnd(off)
    /\ LET e == EntryAt(off)
       IN  /\ ~IsZeroEntry(e)
           /\ ~IsCorrupt(e)
           /\ ~MaybeDecompress(Payload(e)).ok
    /\ WadRaise("ZstdError")

\* extract.py:103-105, no manifest chunk
NamesNoManifest ==
    /\ wpc = "names"
    /\ ~DictHas(chunks, MANIFEST_HASH)
    /\ names' = LoadHashTable
    /\ wpc' = "write"
    /\ UNCHANGED <<wad_bytes, n, chunks, werr, binvars>>

\* extract.py:103-105, the manifest chunk parses
NamesManifest ==
    /\ wpc = "names"
    /\ DictHas(chunks, MANIFEST_HASH)
    /\ LET m == ParseManifest(DictGet(chunks, MANIFEST_HASH))
       IN  /\ m.ok
           /\ names' = DictUpdate(LoadHashTable, m.out)
    /\ wpc' = "write"
    /\ UNCHANGED <<wad_bytes, n, chunks, werr, binvars>>

\* extract.py:105, _parse_manifest raises struct.error
NamesManifestError ==
    /\ wpc = "names"
    /\ DictHas(chunks, MANIFEST_HASH)
    /\ ~ParseManifest(DictGet(chunks, MANIFEST_HASH)).ok
    /\ WadRaise("struct.error")

\* extract.py:108-117: the assets are written to disk, which the model
\* leaves out; extract_wad returns.
WriteAssets ==
    /\ wpc = "write"
    /\ wpc' = "done"
    /\ UNCHANGED <<wad_bytes, n, chunks, names, werr, binvars>>

\* No decoder of the PROP format runs.
BinIdle ==
    /\ mode = "none"
    /\ buf = <<>>
    /\ flen = 0
    /\ hdb = <<>>
    /\ pos = 0
    /\ pc = "none"
    /\ loc = <<>>
    /\ stack = <<>>
    /\ ret = 0
    /\ st = "none"
    /\ err = 0
    /\ result = 0

InitWad ==
    /\ wad_bytes \in WadInputs
    /\ n = 0
    /\ chunks = <<>>
    /\ names = <<>>
    /\ wpc = "scan"
    /\ werr = "none"
    /\ BinIdle

NextWad ==
    \/ ScanExhausted
    \/ ScanPastEnd
    \/ ScanZeroEntry
    \/ ScanSkip
    \/ ScanInsert
    \/ ScanDecompressError
    \/ NamesNoManifest
    \/ NamesManifest
    \/ NamesManifestError
    \/ WriteAssets

SpecWad == InitWad /\ [][NextWad]_vars

-----------------------------------------------------------------------------
(* ritobin_mac.py: Type, the decoded values and the exceptions.            *)

\* class Type(IntEnum)
T_BOOL == 1
T_I8 == 2
T_U8 == 3
T_I16 == 4
T_U16 == 5
T_I32 == 6
T_U32 == 7
T_I64 == 8
T_U64 == 9
T_F32 == 10
T_VEC2 == 11
T_VEC3 == 12
T_VEC4 == 13
T_MTX44 == 14
T_RGBA == 15
T_STRING == 16
T_HASH == 17
T_FILE == 18
T_LIST == 128
T_LIST2 == 129
T_POINTER == 130
T_EMBED == 131
T_LINK == 132
T_OPTION == 133
T_MAP == 134
T_FLAG == 135

\* The values of the enum: Type(typ) raises ValueError for any other.
TypeTags == (1..18) \cup (128..135)

\* The tags read_value decodes with fixed-width reads: how many reads, how
\* many bytes each, and through which Cursor method ("unpack_from": u8,
\* u16, u32, u64, f32; "_take": struct.unpack over cur._take(w)).
PrimTags == TypeTags \ {T_STRING, T_OPTION, T_LIST, T_LIST2, T_MAP, T_EMBED, T_POINTER}

Prim(t) ==
    CASE t \in {T_BOOL, T_I8, T_U8, T_FLAG}    -> [cnt |-> 1,  w |-> 1, via |-> "unpack_from"]
      [] t = T_U16                             -> [cnt |-> 1,  w |-> 2, via |-> "unpack_from"]
      [] t = T_I16                             -> [cnt |-> 1,  w |-> 2, via |-> "_take"]
      [] t \in {T_U32, T_F32, T_HASH, T_LINK}  -> [cnt |-> 1,  w |-> 4, via |-> "unpack_from"]
      [] t = T_I32                             -> [cnt |-> 1,  w |-> 4, via |-> "_take"]
      [] t \in {T_U64, T_FILE}                 -> [cnt |-> 1,  w |-> 8, via |-> "unpack_from"]
      [] t = T_I64                             -> [cnt |-> 1,  w |-> 8, via |-> "_take"]
      [] t = T_VEC2                            -> [cnt |-> 2,  w |-> 4, via |-> "unpack_from"]
      [] t = T_VEC3                            -> [cnt |-> 3,  w |-> 4, via |-> "unpack_from"]
      [] t = T_VEC4                            -> [cnt |-> 4,  w |-> 4, via |-> "unpack_from"]
      [] t = T_MTX44                           -> [cnt |-> 16, w |-> 4, via |-> "unpack_from"]
      [] t = T_RGBA                            -> [cnt |-> 4,  w |-> 1, via |-> "unpack_from"]

\* A decoded value is [k |-> kind, v |-> payload]: "bool" (0 or 1), "int",
\* "int64" (<<high, low>>), "f32" (the four bytes as a u32), "str" (code
\* points), "none", "list" (values) and "dict" (pairs [k |-> key, v |-> value]
\* in insertion order).
Val(kind, payload) == [k |-> kind, v |-> payload]
None    == Val("none", 0)
NoValue == Val("novalue", 0)

\* Signed readings of struct "<b", "<h", "<i", "<q".
S8(b, p)  == IF b[p + 1] >= 128 THEN b[p + 1] - 256 ELSE b[p + 1]
S16(b, p) == IF b[p + 2] >= 128 THEN U16At(b, p) - 65536 ELSE U16At(b, p)
S32(b, p) ==
    IF b[p + 4] >= 128
    THEN (b[p + 1] + 256 * b[p + 2] + 65536 * b[p + 3] + 16777216 * (b[p + 4] - 128))
             - 2147483647 - 1
    ELSE U32At(b, p)
S64(b, p) == <<S32(b, p + 4), U32At(b, p)>>

\* f"{x:08x}"
HexDigit(d) == IF d < 10 THEN 48 + d ELSE 87 + d
Hex8(x) == [i \in 1..8 |->
              HexDigit((x \div (CASE i = 1 -> 268435456 [] i = 2 -> 16777216
                                  [] i = 3 -> 1048576   [] i = 4 -> 65536
                                  [] i = 5 -> 4096      [] i = 6 -> 256
                                  [] i = 7 -> 16        [] i = 8 -> 1)) % 16)]

S_hash == <<104, 97, 115, 104, 58>>     \* "hash:"
S_link == <<108, 105, 110, 107, 58>>    \* "link:"
S_file == <<102, 105, 108, 101, 58>>    \* "file:"
S_type == <<95, 95, 116, 121, 112, 101>> \* "__type"
S_0x   == <<48, 120>>                   \* "0x"
S_a    == <<97>>                        \* "a"
S_PROP == <<80, 82, 79, 80>>            \* b"PROP"
S_PTCH == <<80, 84, 67, 72>>            \* b"PTCH"
S_XXXX == <<88, 88, 88, 88>>            \* b"XXXX", not a magic

\* One fixed-width read of a primitive of tag t at offset p.
PrimRead(t, b, p) ==
    CASE t \in {T_BOOL, T_FLAG} -> Val("bool", IF U8At(b, p) # 0 THEN 1 ELSE 0)
      [] t = T_I8               -> Val("int", S8(b, p))
      [] t \in {T_U8, T_RGBA}   -> Val("int", U8At(b, p))
      [] t = T_I16              -> Val("int", S16(b, p))
      [] t = T_U16              -> Val("int", U16At(b, p))
      [] t = T_I32              -> Val("int", S32(b, p))
      [] t = T_U32              -> Val("int", U32At(b, p))
      [] t = T_I64              -> Val("int64", S64(b, p))
      [] t = T_U64              -> Val("int64", U64At(b, p))
      [] t = T_HASH             -> Val("str", S_hash \o Hex8(U32At(b, p)))
      [] t = T_LINK             -> Val("str", S_link \o Hex8(U32At(b, p)))
      [] t = T_FILE             -> Val("str", S_file \o Hex8(U32At(b, p + 4)) \o Hex8(U32At(b, p)))
      [] OTHER                  -> Val("f32", U32At(b, p))

\* What read_value returns for a primitive once its reads are done: the
\* vectors, the matrix and the colour are lists, the others the one value.
PrimResult(t, reads) ==
    IF t \in {T_VEC2, T_VEC3, T_VEC4, T_MTX44, T_RGBA} THEN Val("list", reads)
    ELSE reads[1]

\* Equality of two decoded values.  The keys of one dict are strings, or
\* the values of one map, of the same tag.
SameValue(a, b) == a.k = b.k /\ a.v = b.v

\* d[key] = val on a dict of the decoded tree.
NodeHas(d, key) == \E i \in DOMAIN d : SameValue(d[i].k, key)
NodeSet(d, key, val) ==
    IF NodeHas(d, key)
    THEN [i \in DOMAIN d |-> IF SameValue(d[i].k, key) THEN [k |-> d[i].k, v |-> val] ELSE d[i]]
    ELSE Append(d, [k |-> key, v |-> val])

\* HashDB.get (ritobin_mac.py:201-202)
HdbGet(h) == IF DictHas(hdb, h) THEN DictGet(hdb, h) ELSE S_0x \o Hex8(h)

\* A list or a dict is unhashable: d[key] = value raises TypeError.
Unhashable(key) == key.k \in {"list", "dict"}

\* The exceptions.  what: "eof" (a read past the buffer end), "magic",
\* "tag", "size" (a failed span assertion), "version", "count", "key".
\* offset and requested are the position and the byte count the message
\* gives, -1 when it gives none.
Exc(type, what, offset, requested) ==
    [type |-> type, what |-> what, offset |-> offset, requested |-> requested]

\* Cursor._take (ritobin_mac.py:76-77): "unexpected EOF @ pos/len(buf)".
TakeEof == Exc("ValueError", "eof", pos, -1)

\* struct.unpack_from below the buffer end: "unpack_from requires a buffer
\* of at least .. bytes for unpacking w bytes at offset pos".
UnpackEof(w) == Exc("struct.error", "eof", pos, w)

\* struct.unpack over a short buf.read(w): "unpack requires a buffer of w
\* bytes".
ShortReadEof(w) == Exc("struct.error", "eof", -1, w)

-----------------------------------------------------------------------------
(* The input buffer.  The file is an arbitrary byte string within the      *)
(* bounds below.  Its bytes are fixed before the call, but the model       *)
(* chooses them when the decoder first reads them: the decodes explored    *)
(* are those of choosing the whole file beforehand, without telling apart  *)
(* files that differ only in bytes never read.                             *)

\* The longest input buffer: of parse_full_prop and read_prop, of parse_bin
\* and of a direct read_value call.
MaxLen      == 47
MaxBinLen   == 36
MaxValueLen == 16
\* The deepest nesting of containers in the input.
MaxDepth    == 2

Limit ==
    CASE mode = "read_value" -> MaxValueLen
      [] mode = "parse_bin"  -> MaxBinLen
      [] OTHER               -> MaxLen

\* The field values the input files are built from.
LeafTagChoices      == {0, T_U8, T_STRING}
ContainerTagChoices == {T_LIST, T_EMBED, T_OPTION, T_MAP}
ListSizeChoices  == {4, 5, 6}
MapSizeChoices   == {4, 6, 8}
EmbedSizeChoices == {2, 8, 14}
CountChoices     == {0, 1, 2}
StrLenChoices    == {0, 1}
HashChoices      == {1, 2}
ByteChoices      == {0, 1}
VersionChoices   == {1, 3}
LinkCountChoices == {0, 1}
LinkLenChoices   == {1}
EntryLenChoices  == {6, 12, 21}
\* parse_bin: <<first u32, second u32>> after the magic, the declared entry
\* lengths and the type ids.
VersionPairs       == {<<1, 0>>, <<1, 1>>, <<3, 1>>, <<3, 2>>, <<11, 3>>, <<11, 12>>}
BinEntryLenChoices == {6, 10, 11, 15}
BinTagChoices      == {0, 3, 24, 25, 99}

Top       == stack[Len(stack)]
SetTop(f) == [stack EXCEPT ![Len(stack)] = f]
Pop       == SubSeq(stack, 1, Len(stack) - 1)

\* The label of the statement that runs next.
CurPc == IF stack # <<>> THEN Top.pc ELSE pc

\* The containers around the value read next, the root entry counted.
Depth == Len(stack) + (IF mode = "read_value" THEN 0 ELSE 1)

TagChoices ==
    IF Depth >= MaxDepth THEN LeafTagChoices
    ELSE LeafTagChoices \cup ContainerTagChoices

\* The first field of the only root entry of a version-1 file is of any
\* tag when the hashes of the entry are 1 and that of the field is 2; the
\* other root fields are leaves.
FieldTagChoices ==
    IF /\ loc.version = 1
       /\ loc.entry_cnt = 1
       /\ loc.entry_hashes = <<1>>
       /\ loc.key_hash = 1
       /\ loc.f_hash = 2
       /\ Len(loc.embed) = 1
    THEN LeafTagChoices \cup ContainerTagChoices
    ELSE LeafTagChoices

\* The nested tag of an Option read_value is called on: every byte.
OptionTagChoices ==
    IF mode = "read_value" /\ Len(stack) = 1 THEN 0..255 ELSE TagChoices

Bytes1(S) == {<<x>> : x \in S}
Bytes2(S) == {LE16(x) : x \in S}
Bytes4(S) == {LE32(x) : x \in S}
\* w bytes, the first from ByteChoices and the others 0.
BytesW(w) == {[i \in 1..w |-> IF i = 1 THEN x ELSE 0] : x \in ByteChoices}
\* k bytes "a".
Text(k) == [i \in 1..k |-> 97]

\* The statement about to run reads the bytes [NeedStart, NeedEnd) of the
\* buffer; NeedEnd = NeedStart when it reads nothing.
NeedStart == pos

NeedLen ==
    CASE CurPc = "prim"      -> Prim(Top.t).w
      [] CurPc = "str_len"   -> 2
      [] CurPc = "str_body"  -> Top.size
      [] CurPc \in {"opt_vt", "opt_count", "list_vt", "map_kt", "map_vt", "emb_ftype"} -> 1
      [] CurPc \in {"list_size", "list_count", "map_size", "map_count",
                    "emb_hash", "emb_size"} -> 4
      [] CurPc = "emb_loop"  -> IF Top.cnt > 0 THEN 4 ELSE 0
      [] CurPc = "emb_fcnt"  -> 2
      [] CurPc \in {"magic", "version", "linked_cnt", "entry_cnt", "entry_hash",
                    "entry_len", "key_hash", "f_hash"} -> 4
      [] CurPc \in {"linked_len", "fld_cnt"} -> 2
      [] CurPc = "linked_body" -> loc.size
      [] CurPc = "prop_take" -> loc.entry_len
      [] CurPc = "f_type"    -> 1
      [] CurPc \in {"bin_ptch", "bin_magic", "bin_link_cnt", "bin_fhash"} -> 4
      [] CurPc = "bin_ver"   -> 8
      [] CurPc \in {"bin_link_char", "bin_ftype"} -> 1
      [] CurPc = "bin_hashes" -> 4 * loc.entry_cnt
      [] CurPc = "bin_entry" -> 10
      [] OTHER               -> 0

NeedEnd == NeedStart + NeedLen

\* The bytes a file may hold in the field the statement reads.
NeedVals ==
    CASE CurPc = "prim"      -> BytesW(Prim(Top.t).w)
      [] CurPc = "str_len"   -> Bytes2(StrLenChoices)
      [] CurPc = "str_body"  -> {Text(Top.size)}
      [] CurPc = "opt_vt"    -> Bytes1(OptionTagChoices)
      [] CurPc \in {"list_vt", "map_kt", "map_vt", "emb_ftype"} -> Bytes1(TagChoices)
      [] CurPc = "f_type"    -> Bytes1(FieldTagChoices)
      [] CurPc = "opt_count" -> Bytes1(CountChoices)
      [] CurPc = "list_size" -> Bytes4(ListSizeChoices)
      [] CurPc = "map_size"  -> Bytes4(MapSizeChoices)
      [] CurPc = "emb_size"  -> Bytes4(EmbedSizeChoices)
      [] CurPc \in {"list_count", "map_count", "entry_cnt"} -> Bytes4(CountChoices)
      [] CurPc \in {"emb_hash", "emb_loop", "entry_hash", "key_hash", "f_hash",
                    "bin_fhash"} -> Bytes4(HashChoices)
      [] CurPc \in {"emb_fcnt", "fld_cnt"} -> Bytes2(CountChoices)
      [] CurPc \in {"magic", "bin_ptch"} -> {S_PROP, S_PTCH, S_XXXX}
      [] CurPc = "bin_magic" -> {S_PROP, S_XXXX}
      [] CurPc = "version"   -> Bytes4(VersionChoices)
      [] CurPc \in {"linked_cnt", "bin_link_cnt"} -> Bytes4(LinkCountChoices)
      [] CurPc = "linked_len" -> Bytes2(LinkLenChoices)
      [] CurPc = "linked_body" -> {Text(loc.size)}
      [] CurPc = "entry_len" -> Bytes4(EntryLenChoices)
      [] CurPc = "bin_ver"   -> {LE32(p[1]) \o LE32(p[2]) : p \in VersionPairs}
      [] CurPc = "bin_link_char" -> IF loc.out = <<>> THEN {<<97>>, <<0>>} ELSE {<<0>>}
      [] CurPc = "bin_hashes" ->
             IF loc.entry_cnt \in CountChoices
             THEN {Flatten([i \in 1..loc.entry_cnt |-> LE32(f[i])]) :
                       f \in [1..loc.entry_cnt -> HashChoices]}
             ELSE {Zeros(4 * loc.entry_cnt)}
      [] CurPc = "bin_entry" ->
             {LE32(l) \o LE32(h) \o LE16(c) :
                  l \in BinEntryLenChoices, h \in HashChoices, c \in CountChoices}
      [] CurPc = "bin_ftype" -> Bytes1(BinTagChoices)
      [] OTHER               -> {Zeros(NeedLen)}

\* Whether the bytes below offset end are determined: they are read, or the
\* file is known to end before.
Known(end) == end <= Len(buf) \/ (flen # -1 /\ Len(buf) = flen)

EnvUnchanged ==
    /\ UNCHANGED <<mode, hdb, pos, pc, loc, stack, ret, st, err, result>>
    /\ UNCHANGED wadvars

\* The file holds the bytes the next read asks for.
Supply ==
    /\ st = "run"
    /\ NeedLen > 0
    /\ NeedEnd > Len(buf)
    /\ NeedEnd <= Limit
    /\ flen = -1 \/ NeedEnd <= flen
    /\ \E s \in NeedVals :
          buf' = IF Len(buf) <= NeedStart
                 THEN buf \o Zeros(NeedStart - Len(buf)) \o s
                 ELSE buf \o Zeros(NeedEnd - Len(buf))
    /\ UNCHANGED flen
    /\ EnvUnchanged

\* The file ends before the bytes the next read asks for, by all of them or
\* by one.
EndOfFile ==
    /\ st = "run"
    /\ flen = -1
    /\ NeedLen > 0
    /\ NeedEnd > Len(buf)
    /\ \E r \in {0, NeedEnd - Len(buf) - 1} :
          /\ Len(buf) + r <= Limit
          /\ buf' = buf \o Zeros(r)
          /\ flen' = Len(buf) + r
    /\ EnvUnchanged

-----------------------------------------------------------------------------
(* ritobin_mac.py: read_value.  Each active call is a frame of the stack.  *)

Frame(t) == [pc |-> "dispatch", t |-> t, kt |-> 0, vt |-> 0, h |-> 0, size |-> 0,
             start |-> 0, cnt |-> 0, acc |-> <<>>, key |-> NoValue]

At(label) == st = "run" /\ stack # <<>> /\ Top.pc = label

\* A step of read_value that does not raise.
Go(newpos, newstack, newret) ==
    /\ pos' = newpos
    /\ stack' = newstack
    /\ ret' = newret
    /\ UNCHANGED <<mode, buf, flen, hdb, pc, loc, st, err, result>>
    /\ UNCHANGED wadvars

\* The statement raises: the exception leaves every active call.
Raise(e) ==
    /\ st' = "raised"
    /\ err' = e
    /\ UNCHANGED <<mode, buf, flen, hdb, pos, pc, loc, stack, ret, result>>
    /\ UNCHANGED wadvars

\* The innermost call returns v to its caller.
Return(newpos, v) == Go(newpos, Pop, v)

\* The innermost call, now waiting at label, calls read_value(cur, t, hdb).
Call(newpos, waiting, t) ==
    Go(newpos, Append(SetTop(waiting), Frame(t)), NoValue)

\* A faulty variant of IsType: 0 passes as a tag.
IsTypeOrZero(typ) == typ \in TypeTags \cup {0}

\* Type(typ) (ritobin_mac.py:210) succeeds.
IsType(typ) == typ \in TypeTags

FirstPc(t) ==
    CASE t \in PrimTags              -> "prim"
      [] t = T_STRING                -> "str_len"
      [] t = T_OPTION                -> "opt_vt"
      [] t \in {T_LIST, T_LIST2}     -> "list_vt"
      [] t = T_MAP                   -> "map_kt"
      [] t \in {T_EMBED, T_POINTER}  -> "emb_hash"

\* A faulty variant of SpanOk: the assertion is not made.
SpanUnchecked(f) == TRUE

\* The assertions of ritobin_mac.py:272, 285, 299.
SpanOk(f) == pos = f.start + f.size

SizeMismatch == Exc("AssertionError", "size", -1, -1)

\* ritobin_mac.py:210, an unknown tag: Type(typ) raises ValueError
DispatchUnknown ==
    /\ At("dispatch")
    /\ ~IsType(Top.t)
    /\ Raise(Exc("ValueError", "tag", -1, -1))

\* ritobin_mac.py:210-302, the branch of the tag is chosen
Dispatch ==
    /\ At("dispatch")
    /\ IsType(Top.t)
    /\ Go(pos, SetTop([Top EXCEPT !.pc = FirstPc(Top.t),
                                  !.cnt = IF Top.t \in PrimTags THEN Prim(Top.t).cnt ELSE 0]),
          ret)

\* ritobin_mac.py:213-259, one fixed-width read of a primitive
ReadPrimitive ==
    /\ At("prim")
    /\ LET p == Prim(Top.t)
       IN  /\ Known(pos + p.w)
           /\ IF pos + p.w > Len(buf)
              THEN Raise(IF p.via = "_take" THEN TakeEof ELSE UnpackEof(p.w))
              ELSE LET acc == Append(Top.acc, PrimRead(Top.t, buf, pos))
                   IN  IF Top.cnt = 1
                       THEN Return(pos + p.w, PrimResult(Top.t, acc))
                       ELSE Go(pos + p.w, SetTop([Top EXCEPT !.acc = acc, !.cnt = @ - 1]), ret)

\* ritobin_mac.py:90, pascal_string: size = self.u16()
StringLength ==
    /\ At("str_len")
    /\ Known(pos + 2)
    /\ IF pos + 2 > Len(buf) THEN Raise(UnpackEof(2))
       ELSE Go(pos + 2, SetTop([Top EXCEPT !.size = U16At(buf, pos), !.pc = "str_body"]), ret)

\* ritobin_mac.py:91-92, pascal_string: self._take(size), decode
StringBody ==
    /\ At("str_body")
    /\ Known(pos + Top.size)
    /\ IF pos + Top.size > Len(buf) THEN Raise(TakeEof)
       ELSE Return(pos + Top.size,
                   Val("str", Utf8Replace(Slice(buf, pos, pos + Top.size))))

\* ritobin_mac.py:263
OptionType ==
    /\ At("opt_vt")
    /\ Known(pos + 1)
    /\ IF pos + 1 > Len(buf) THEN Raise(UnpackEof(1))
       ELSE Go(pos + 1, SetTop([Top EXCEPT !.vt = U8At(buf, pos), !.pc = "opt_count"]), ret)

\* A faulty variant of OptionIsEmpty: no count makes the option empty.
OptionNeverEmpty(count) == FALSE

\* The test of ritobin_mac.py:265.
OptionIsEmpty(count) == count = 0

\* ritobin_mac.py:264-265
OptionCount ==
    /\ At("opt_count")
    /\ Known(pos + 1)
    /\ IF pos + 1 > Len(buf) THEN Raise(UnpackEof(1))
       ELSE IF OptionIsEmpty(U8At(buf, pos)) THEN Return(pos + 1, None)
       ELSE Call(pos + 1, [Top EXCEPT !.cnt = U8At(buf, pos), !.pc = "opt_ret"], Top.vt)

\* ritobin_mac.py:265, the nested value is returned
OptionReturn ==
    /\ At("opt_ret")
    /\ Return(pos, ret)

\* ritobin_mac.py:267
ListType ==
    /\ At("list_vt")
    /\ Known(pos + 1)
    /\ IF pos + 1 > Len(buf) THEN Raise(UnpackEof(1))
       ELSE Go(pos + 1, SetTop([Top EXCEPT !.vt = U8At(buf, pos), !.pc = "list_size"]), ret)

\* A faulty variant of ListSpanStart: the span starts after the count.
ListSpanStartAfterCount(after_size) == after_size + 4

\* start_pos of ritobin_mac.py:269: the cursor after the size field.
ListSpanStart(after_size) == after_size

\* ritobin_mac.py:268-269
ListSize ==
    /\ At("list_size")
    /\ Known(pos + 4)
    /\ IF pos + 4 > Len(buf) THEN Raise(UnpackEof(4))
       ELSE Go(pos + 4, SetTop([Top EXCEPT !.size = U32At(buf, pos),
                                           !.start = ListSpanStart(pos + 4),
                                           !.pc = "list_count"]), ret)

\* ritobin_mac.py:270
ListCount ==
    /\ At("list_count")
    /\ Known(pos + 4)
    /\ IF pos + 4 > Len(buf) THEN Raise(UnpackEof(4))
       ELSE Go(pos + 4, SetTop([Top EXCEPT !.cnt = U32At(buf, pos), !.pc = "list_loop"]), ret)

\* ritobin_mac.py:271, the next element
ListCall ==
    /\ At("list_loop")
    /\ Top.cnt > 0
    /\ Call(pos, [Top EXCEPT !.pc = "list_ret"], Top.vt)

\* ritobin_mac.py:271, the element is appended
ListElement ==
    /\ At("list_ret")
    /\ Go(pos, SetTop([Top EXCEPT !.acc = Append(@, ret), !.cnt = @ - 1, !.pc = "list_loop"]),
          NoValue)

\* ritobin_mac.py:272-273
ListEnd ==
    /\ At("list_loop")
    /\ Top.cnt = 0
    /\ IF SpanOk(Top) THEN Return(pos, Val("list", Top.acc)) ELSE Raise(SizeMismatch)

\* ritobin_mac.py:275
MapKeyType ==
    /\ At("map_kt")
    /\ Known(pos + 1)
    /\ IF pos + 1 > Len(buf) THEN Raise(UnpackEof(1))
       ELSE Go(pos + 1, SetTop([Top EXCEPT !.kt = U8At(buf, pos), !.pc = "map_vt"]), ret)

\* ritobin_mac.py:276
MapValueType ==
    /\ At("map_vt")
    /\ Known(pos + 1)
    /\ IF pos + 1 > Len(buf) THEN Raise(UnpackEof(1))
       ELSE Go(pos + 1, SetTop([Top EXCEPT !.vt = U8At(buf, pos), !.pc = "map_size"]), ret)

\* ritobin_mac.py:277-278
MapSize ==
    /\ At("map_size")
    /\ Known(pos + 4)
    /\ IF pos + 4 > Len(buf) THEN Raise(UnpackEof(4))
       ELSE Go(pos + 4, SetTop([Top EXCEPT !.size = U32At(buf, pos), !.start = pos + 4,
                                           !.pc = "map_count"]), ret)

\* ritobin_mac.py:279-280
MapCount ==
    /\ At("map_count")
    /\ Known(pos + 4)
    /\ IF pos + 4 > Len(buf) THEN Raise(UnpackEof(4))
       ELSE Go(pos + 4, SetTop([Top EXCEPT !.cnt = U32At(buf, pos), !.pc = "map_loop"]), ret)

\* ritobin_mac.py:282, the next key
MapCallKey ==
    /\ At("map_loop")
    /\ Top.cnt > 0
    /\ Call(pos, [Top EXCEPT !.pc = "map_kret"], Top.kt)

\* ritobin_mac.py:283, the value of the key
MapCallValue ==
    /\ At("map_kret")
    /\ Call(pos, [Top EXCEPT !.key = ret, !.pc = "map_vret"], Top.vt)

\* ritobin_mac.py:284
MapStore ==
    /\ At("map_vret")
    /\ IF Unhashable(Top.key) THEN Raise(Exc("TypeError", "key", -1, -1))
       ELSE Go(pos, SetTop([Top EXCEPT !.acc = NodeSet(@, Top.key, ret), !.cnt = @ - 1,
                                       !.key = NoValue, !.pc = "map_loop"]), NoValue)

\* ritobin_mac.py:285-286
MapEnd ==
    /\ At("map_loop")
    /\ Top.cnt = 0
    /\ IF SpanOk(Top) THEN Return(pos, Val("dict", Top.acc)) ELSE Raise(SizeMismatch)

\* ritobin_mac.py:288
EmbedHash ==
    /\ At("emb_hash")
    /\ Known(pos + 4)
    /\ IF pos + 4 > Len(buf) THEN Raise(UnpackEof(4))
       ELSE Go(pos + 4, SetTop([Top EXCEPT !.h = U32At(buf, pos), !.pc = "emb_size"]), ret)

\* ritobin_mac.py:289-290
EmbedSize ==
    /\ At("emb_size")
    /\ Known(pos + 4)
    /\ IF pos + 4 > Len(buf) THEN Raise(UnpackEof(4))
       ELSE Go(pos + 4, SetTop([Top EXCEPT !.size = U32At(buf, pos), !.start = pos + 4,
                                           !.pc = "emb_fcnt"]), ret)

\* ritobin_mac.py:291-293
EmbedFieldCount ==
    /\ At("emb_fcnt")
    /\ Known(pos + 2)
    /\ IF pos + 2 > Len(buf) THEN Raise(UnpackEof(2))
       ELSE Go(pos + 2,
               SetTop([Top EXCEPT !.cnt = U16At(buf, pos),
                                  !.acc = NodeSet(<<>>, Val("str", S_type),
                                                  Val("str", HdbGet(Top.h))),
                                  !.pc = "emb_loop"]), ret)

\* ritobin_mac.py:295
EmbedFieldHash ==
    /\ At("emb_loop")
    /\ Top.cnt > 0
    /\ Known(pos + 4)
    /\ IF pos + 4 > Len(buf) THEN Raise(UnpackEof(4))
       ELSE Go(pos + 4, SetTop([Top EXCEPT !.h = U32At(buf, pos), !.pc = "emb_ftype"]), ret)

\* ritobin_mac.py:296-298, the field's value is read
EmbedFieldType ==
    /\ At("emb_ftype")
    /\ Known(pos + 1)
    /\ IF pos + 1 > Len(buf) THEN Raise(UnpackEof(1))
       ELSE Call(pos + 1, [Top EXCEPT !.key = Val("str", HdbGet(Top.h)), !.pc = "emb_ret"],
                 U8At(buf, pos))

\* ritobin_mac.py:298, the field is stored
EmbedStore ==
    /\ At("emb_ret")
    /\ Go(pos, SetTop([Top EXCEPT !.acc = NodeSet(@, Top.key, ret), !.cnt = @ - 1,
                                   !.key = NoValue, !.pc = "emb_loop"]), NoValue)

\* ritobin_mac.py:299-300
EmbedEnd ==
    /\ At("emb_loop")
    /\ Top.cnt = 0
    /\ IF SpanOk(Top) THEN Return(pos, Val("dict", Top.acc)) ELSE Raise(SizeMismatch)

ReadValueStep ==
    \/ DispatchUnknown
    \/ Dispatch
    \/ ReadPrimitive
    \/ StringLength
    \/ StringBody
    \/ OptionType
    \/ OptionCount
    \/ OptionReturn
    \/ ListType
    \/ ListSize
    \/ ListCount
    \/ ListCall
    \/ ListElement
    \/ ListEnd
    \/ MapKeyType
    \/ MapValueType
    \/ MapSize
    \/ MapCount
    \/ MapCallKey
    \/ MapCallValue
    \/ MapStore
    \/ MapEnd
    \/ EmbedHash
    \/ EmbedSize
    \/ EmbedFieldCount
    \/ EmbedFieldHash
    \/ EmbedFieldType
    \/ EmbedStore
    \/ EmbedEnd

-----------------------------------------------------------------------------
(* A call of read_value(cur, typ, hdb) on a fresh Cursor.                  *)

AtRoot(label) == st = "run" /\ stack = <<>> /\ pc = label

\* A step of the called function itself.
GoRoot(newpos, newpc, newloc) ==
    /\ pos' = newpos
    /\ pc' = newpc
    /\ loc' = newloc
    /\ UNCHANGED <<mode, buf, flen, hdb, stack, ret, st, err, result>>
    /\ UNCHANGED wadvars

\* The called function calls read_value(cur, t, hdb) and waits at newpc.
CallRoot(newpos, newpc, newloc, t) ==
    /\ pos' = newpos
    /\ pc' = newpc
    /\ loc' = newloc
    /\ stack' = <<Frame(t)>>
    /\ ret' = NoValue
    /\ UNCHANGED <<mode, buf, flen, hdb, st, err, result>>
    /\ UNCHANGED wadvars

\* The called function returns v.
Finish(v) ==
    /\ st' = "done"
    /\ result' = v
    /\ UNCHANGED <<mode, buf, flen, hdb, pos, pc, loc, stack, ret, err>>
    /\ UNCHANGED wadvars

ValueCall ==
    /\ mode = "read_value"
    /\ AtRoot("rv_call")
    /\ CallRoot(pos, "rv_ret", loc, loc.typ)

ValueReturned ==
    /\ mode = "read_value"
    /\ AtRoot("rv_ret")
    /\ Finish(ret)

-----------------------------------------------------------------------------
(* ritobin_mac.py: read_prop and parse_full_prop.  The two functions share *)
(* the code of the header, of the linked list and of the entry-hash table  *)
(* (ritobin_mac.py:105-115 and 316-325); they differ in the magic test and *)
(* in what they do with a root entry.                                      *)

\* The local variables of read_prop / parse_full_prop before the first
\* statement.
PropLocals ==
    [version |-> 0, has_linked |-> FALSE, linked |-> <<>>, linked_cnt |-> 0, size |-> 0,
     entry_cnt |-> 0, entry_hashes |-> <<>>, idx |-> 1,
     entry_len |-> 0, slice_start |-> 0, key_hash |-> 0, field_cnt |-> 0,
     f_hash |-> 0, f_name |-> NoValue, embed |-> <<>>, entries |-> <<>>]

\* The statement raises after the cursor moved to newpos.
RaiseAt(newpos, e) ==
    /\ st' = "raised"
    /\ err' = e
    /\ pos' = newpos
    /\ UNCHANGED <<mode, buf, flen, hdb, pc, loc, stack, ret, result>>
    /\ UNCHANGED wadvars

\* The label after root entry idx is done: the next entry, or the return.
AfterEntry(l) == IF l.idx < Len(l.entry_hashes) THEN "entry_len" ELSE "return"

\* ritobin_mac.py:99-103
PropMagic ==
    /\ mode = "read_prop"
    /\ AtRoot("magic")
    /\ Known(pos + 4)
    /\ IF pos + 4 > Len(buf) THEN Raise(TakeEof)
       ELSE IF Slice(buf, pos, pos + 4) = S_PTCH
            THEN RaiseAt(pos + 4, Exc("NotImplementedError", "magic", -1, -1))
       ELSE IF Slice(buf, pos, pos + 4) # S_PROP
            THEN RaiseAt(pos + 4, Exc("ValueError", "magic", -1, -1))
       ELSE GoRoot(pos + 4, "version", loc)

\* ritobin_mac.py:313-315
FullMagic ==
    /\ mode = "parse_full_prop"
    /\ AtRoot("magic")
    /\ Known(pos + 4)
    /\ IF pos + 4 > Len(buf) THEN Raise(TakeEof)
       ELSE IF Slice(buf, pos, pos + 4) # S_PROP
            THEN RaiseAt(pos + 4, Exc("ValueError", "magic", -1, -1))
       ELSE GoRoot(pos + 4, "version", loc)

\* ritobin_mac.py:105-109 (316-320)
HeaderVersion ==
    /\ AtRoot("version")
    /\ Known(pos + 4)
    /\ IF pos + 4 > Len(buf) THEN Raise(UnpackEof(4))
       ELSE LET v == U32At(buf, pos)
            IN  GoRoot(pos + 4, IF v >= 2 THEN "linked_cnt" ELSE "entry_cnt",
                       [loc EXCEPT !.version = v])

\* ritobin_mac.py:110-111 (321), linked_cnt = cur.u32()
LinkedCount ==
    /\ AtRoot("linked_cnt")
    /\ Known(pos + 4)
    /\ IF pos + 4 > Len(buf) THEN Raise(UnpackEof(4))
       ELSE LET c == U32At(buf, pos)
            IN  GoRoot(pos + 4, IF c > 0 THEN "linked_len" ELSE "entry_cnt",
                       [loc EXCEPT !.linked_cnt = c, !.has_linked = TRUE])

\* ritobin_mac.py:111 (321), pascal_string: size = self.u16()
LinkedLength ==
    /\ AtRoot("linked_len")
    /\ Known(pos + 2)
    /\ IF pos + 2 > Len(buf) THEN Raise(UnpackEof(2))
       ELSE GoRoot(pos + 2, "linked_body", [loc EXCEPT !.size = U16At(buf, pos)])

\* ritobin_mac.py:111 (321), pascal_string: self._take(size), decode
LinkedBody ==
    /\ AtRoot("linked_body")
    /\ Known(pos + loc.size)
    /\ IF pos + loc.size > Len(buf) THEN Raise(TakeEof)
       ELSE GoRoot(pos + loc.size,
                   IF loc.linked_cnt > 1 THEN "linked_len" ELSE "entry_cnt",
                   [loc EXCEPT !.linked = Append(@, Utf8Replace(Slice(buf, pos, pos + loc.size))),
                               !.linked_cnt = @ - 1])

\* ritobin_mac.py:114 (324)
EntryCount ==
    /\ AtRoot("entry_cnt")
    /\ Known(pos + 4)
    /\ IF pos + 4 > Len(buf) THEN Raise(UnpackEof(4))
       ELSE LET c == U32At(buf, pos)
            IN  GoRoot(pos + 4, IF c > 0 THEN "entry_hash" ELSE "return",
                       [loc EXCEPT !.entry_cnt = c])

\* ritobin_mac.py:115 (325)
EntryHash ==
    /\ AtRoot("entry_hash")
    /\ Known(pos + 4)
    /\ IF pos + 4 > Len(buf) THEN Raise(UnpackEof(4))
       ELSE LET hs == Append(loc.entry_hashes, U32At(buf, pos))
            IN  GoRoot(pos + 4, IF Len(hs) < loc.entry_cnt THEN "entry_hash" ELSE "entry_len",
                       [loc EXCEPT !.entry_hashes = hs])

\* ritobin_mac.py:119 (328-329)
EntryLength ==
    /\ AtRoot("entry_len")
    /\ Known(pos + 4)
    /\ IF pos + 4 > Len(buf) THEN Raise(UnpackEof(4))
       ELSE GoRoot(pos + 4, "key_hash",
                   [loc EXCEPT !.entry_len = U32At(buf, pos), !.slice_start = pos + 4])

\* ritobin_mac.py:122 (331)
EntryKeyHash ==
    /\ AtRoot("key_hash")
    /\ Known(pos + 4)
    /\ IF pos + 4 > Len(buf) THEN Raise(UnpackEof(4))
       ELSE GoRoot(pos + 4, "fld_cnt", [loc EXCEPT !.key_hash = U32At(buf, pos)])

\* ritobin_mac.py:123
PropFieldCount ==
    /\ mode = "read_prop"
    /\ AtRoot("fld_cnt")
    /\ Known(pos + 2)
    /\ IF pos + 2 > Len(buf) THEN Raise(UnpackEof(2))
       ELSE GoRoot(pos + 2, "prop_rewind", [loc EXCEPT !.field_cnt = U16At(buf, pos)])

\* A faulty variant of Rewind: the length field is rewound too.
RewindPastEntry(p) == p - 10

\* cur.pos -= 6 (ritobin_mac.py:126)
Rewind(p) == p - 6

\* ritobin_mac.py:126
PropRewind ==
    /\ mode = "read_prop"
    /\ AtRoot("prop_rewind")
    /\ GoRoot(Rewind(pos), "prop_take", loc)

\* ritobin_mac.py:127-129
PropTake ==
    /\ mode = "read_prop"
    /\ AtRoot("prop_take")
    /\ Known(pos + loc.entry_len)
    /\ IF pos + loc.entry_len > Len(buf) THEN Raise(TakeEof)
       ELSE GoRoot(pos + loc.entry_len, AfterEntry(loc),
                   [loc EXCEPT !.entries = DictSet(@, loc.key_hash,
                                                   Slice(buf, pos, pos + loc.entry_len)),
                               !.idx = @ + 1])

\* ritobin_mac.py:332-334
FullFieldCount ==
    /\ mode = "parse_full_prop"
    /\ AtRoot("fld_cnt")
    /\ Known(pos + 2)
    /\ IF pos + 2 > Len(buf) THEN Raise(UnpackEof(2))
       ELSE LET c == U16At(buf, pos)
            IN  GoRoot(pos + 2, IF c > 0 THEN "f_hash" ELSE "entry_end",
                       [loc EXCEPT !.field_cnt = c,
                                   !.embed = NodeSet(<<>>, Val("str", S_type),
                                                     Val("str", HdbGet(loc.key_hash)))])

\* ritobin_mac.py:336
FullFieldHash ==
    /\ mode = "parse_full_prop"
    /\ AtRoot("f_hash")
    /\ Known(pos + 4)
    /\ IF pos + 4 > Len(buf) THEN Raise(UnpackEof(4))
       ELSE GoRoot(pos + 4, "f_type", [loc EXCEPT !.f_hash = U32At(buf, pos)])

\* ritobin_mac.py:337-339, the field's value is read
FullFieldType ==
    /\ mode = "parse_full_prop"
    /\ AtRoot("f_type")
    /\ Known(pos + 1)
    /\ IF pos + 1 > Len(buf) THEN Raise(UnpackEof(1))
       ELSE CallRoot(pos + 1, "f_ret",
                     [loc EXCEPT !.f_name = Val("str", HdbGet(loc.f_hash))],
                     U8At(buf, pos))

\* ritobin_mac.py:339, the field is stored
FullFieldStore ==
    /\ mode = "parse_full_prop"
    /\ AtRoot("f_ret")
    /\ GoRoot(pos, IF loc.field_cnt > 1 THEN "f_hash" ELSE "entry_end",
              [loc EXCEPT !.embed = NodeSet(@, loc.f_name, ret), !.field_cnt = @ - 1])

\* A faulty variant of EntrySpanOk: the assertion is not made.
EntrySpanUnchecked == TRUE

\* The assertion of ritobin_mac.py:340.
EntrySpanOk == pos = loc.slice_start + loc.entry_len

\* ritobin_mac.py:340-341
FullEntryEnd ==
    /\ mode = "parse_full_prop"
    /\ AtRoot("entry_end")
    /\ IF ~EntrySpanOk THEN Raise(SizeMismatch)
       ELSE GoRoot(pos, AfterEntry(loc),
                   [loc EXCEPT !.entries = NodeSet(@, Val("str", HdbGet(loc.entry_hashes[loc.idx])),
                                                   Val("dict", loc.embed)),
                               !.idx = @ + 1])

\* ritobin_mac.py:131-132 (342-343)
PropReturn ==
    /\ AtRoot("return")
    /\ Finish([type |-> "PROP", version |-> loc.version, has_linked |-> loc.has_linked,
               linked |-> loc.linked, entries |-> loc.entries])

HeaderStep ==
    \/ HeaderVersion
    \/ LinkedCount
    \/ LinkedLength
    \/ LinkedBody
    \/ EntryCount
    \/ EntryHash
    \/ EntryLength
    \/ EntryKeyHash
    \/ PropReturn

-----------------------------------------------------------------------------
(* bin_parser.py: parse_bin.  The buffer is an io.BytesIO: read(w) returns *)
(* the bytes that are there, at most w, and moves the position past them;  *)
(* seek(p) sets the position, also past the end.                           *)

TYPE_NAMES ==
    [i \in 0..24 |->
        CASE i = 0  -> "NONE"   [] i = 1  -> "BOOL"   [] i = 2  -> "I8"
          [] i = 3  -> "U8"     [] i = 4  -> "I16"    [] i = 5  -> "U16"
          [] i = 6  -> "I32"    [] i = 7  -> "U32"    [] i = 8  -> "I64"
          [] i = 9  -> "U64"    [] i = 10 -> "F32"    [] i = 11 -> "VEC2"
          [] i = 12 -> "VEC3"   [] i = 13 -> "VEC4"   [] i = 14 -> "MAT4"
          [] i = 15 -> "RGBA"   [] i = 16 -> "STRING" [] i = 17 -> "HASH"
          [] i = 18 -> "ARRAY"  [] i = 19 -> "STRUCT" [] i = 20 -> "EMBED"
          [] i = 21 -> "LINK"   [] i = 22 -> "OPTION" [] i = 23 -> "MAP"
          [] i = 24 -> "FLAG"]

\* TYPE_NAMES.get(type_id, f"UNKNOWN({type_id})")
TypeName(type_id) ==
    IF type_id \in DOMAIN TYPE_NAMES THEN TYPE_NAMES[type_id] ELSE "UNKNOWN"

\* f"{x:016X}" of a value below 2^32
HexDigitUpper(d) == IF d < 10 THEN 48 + d ELSE 55 + d
Hex16Upper(x) ==
    [i \in 1..16 |->
        IF i <= 8 THEN 48
        ELSE HexDigitUpper((x \div (CASE i = 9  -> 268435456 [] i = 10 -> 16777216
                                      [] i = 11 -> 1048576   [] i = 12 -> 65536
                                      [] i = 13 -> 4096      [] i = 14 -> 256
                                      [] i = 15 -> 16        [] i = 16 -> 1)) % 16)]

\* RiotHashUnhasher.unhash (hash_unhasher.py:28-29)
Unhash(value) == IF DictHas(hdb, value) THEN DictGet(hdb, value) ELSE S_0x \o Hex16Upper(value)

\* The local variables of parse_bin before the first statement.
BinLocals ==
    [version |-> 0, entry_cnt |-> 0, link_cnt |-> 0, links |-> <<>>, out |-> <<>>,
     entry_type_hashes |-> <<>>, idx |-> 0, entry_start |-> 0, entry_len |-> 0,
     entry_hash |-> 0, field_cnt |-> 0, left |-> 0, field_hash |-> 0,
     fields |-> <<>>, entries |-> <<>>]

\* The bytes buf.read(w) returns and the position it leaves.
Avail(w)   == IF pos >= Len(buf) THEN 0 ELSE Min(w, Len(buf) - pos)
ReadOf(w)  == IF Avail(w) = 0 THEN <<>> ELSE Slice(buf, pos, pos + Avail(w))

\* The length of the file is fixed before the call; the model chooses it
\* when parse_bin first asks for it (bin_parser.py:57).
FixLength ==
    /\ st = "run"
    /\ CurPc = "bin_sanity"
    /\ flen = -1
    /\ \E l \in Len(buf)..Limit : flen' = l
    /\ UNCHANGED buf
    /\ EnvUnchanged

\* The file ends within the bytes the next read asks for: its last bytes.
SupplyRest ==
    /\ st = "run"
    /\ flen # -1
    /\ Len(buf) < flen
    /\ NeedLen > 0
    /\ NeedEnd > flen
    /\ buf' = buf \o Zeros(flen - Len(buf))
    /\ UNCHANGED flen
    /\ EnvUnchanged

\* bin_parser.py:39-42
BinWrapper ==
    /\ mode = "parse_bin"
    /\ AtRoot("bin_ptch")
    /\ Known(pos + 4)
    /\ GoRoot(IF ReadOf(4) = S_PTCH THEN 12 ELSE 0, "bin_magic", loc)

\* bin_parser.py:44-45
BinMagic ==
    /\ mode = "parse_bin"
    /\ AtRoot("bin_magic")
    /\ Known(pos + 4)
    /\ IF ReadOf(4) # S_PROP
       THEN RaiseAt(pos + Avail(4), Exc("ValueError", "magic", -1, -1))
       ELSE GoRoot(pos + 4, "bin_ver", loc)

\* A faulty variant of PickVersion: two integers <= 10 are an error.
PickVersionStrict(a, b) ==
    IF a <= 10 /\ b > 10 THEN [ok |-> TRUE, version |-> a, entry_cnt |-> b]
    ELSE IF b <= 10 /\ a > 10 THEN [ok |-> TRUE, version |-> b, entry_cnt |-> a]
    ELSE [ok |-> FALSE, version |-> 0, entry_cnt |-> 0]

\* The choice of bin_parser.py:49-54 between the two u32 after the magic.
PickVersion(a, b) ==
    IF a <= 10 THEN [ok |-> TRUE, version |-> a, entry_cnt |-> b]
    ELSE IF b <= 10 THEN [ok |-> TRUE, version |-> b, entry_cnt |-> a]
    ELSE [ok |-> FALSE, version |-> 0, entry_cnt |-> 0]

\* bin_parser.py:48-54
BinVersion ==
    /\ mode = "parse_bin"
    /\ AtRoot("bin_ver")
    /\ Known(pos + 8)
    /\ IF Avail(8) < 8 THEN RaiseAt(pos + Avail(8), ShortReadEof(8))
       ELSE LET p == PickVersion(U32At(buf, pos), U32At(buf, pos + 4))
            IN  IF p.ok
                THEN GoRoot(pos + 8, "bin_sanity",
                            [loc EXCEPT !.version = p.version, !.entry_cnt = p.entry_cnt])
                ELSE RaiseAt(pos + 8, Exc("ValueError", "version", -1, -1))

\* bin_parser.py:57-63
BinSanity ==
    /\ mode = "parse_bin"
    /\ AtRoot("bin_sanity")
    /\ flen # -1
    /\ IF loc.entry_cnt * 4 > flen - pos
       THEN Raise(Exc("ValueError", "count", -1, -1))
       ELSE GoRoot(pos, IF loc.version >= 2 THEN "bin_link_cnt" ELSE "bin_hashes", loc)

\* bin_parser.py:64
BinLinkCount ==
    /\ mode = "parse_bin"
    /\ AtRoot("bin_link_cnt")
    /\ Known(pos + 4)
    /\ IF Avail(4) < 4 THEN RaiseAt(pos + Avail(4), ShortReadEof(4))
       ELSE LET c == U32At(buf, pos)
            IN  GoRoot(pos + 4, IF c > 0 THEN "bin_link_char" ELSE "bin_hashes",
                       [loc EXCEPT !.link_cnt = c])

\* bin_parser.py:28-32 and 65, one turn of the loop of _read_cstring: the
\* string ends at a zero byte and at the end of the file alike.
BinLinkChar ==
    /\ mode = "parse_bin"
    /\ AtRoot("bin_link_char")
    /\ Known(pos + 1)
    /\ IF Avail(1) = 1 /\ U8At(buf, pos) # 0
       THEN GoRoot(pos + 1, "bin_link_char", [loc EXCEPT !.out = Append(@, U8At(buf, pos))])
       ELSE GoRoot(pos + Avail(1),
                   IF loc.link_cnt > 1 THEN "bin_link_char" ELSE "bin_hashes",
                   [loc EXCEPT !.links = Append(@, Utf8Replace(loc.out)),
                               !.out = <<>>, !.link_cnt = @ - 1])

\* bin_parser.py:68 and 72
BinHashes ==
    /\ mode = "parse_bin"
    /\ AtRoot("bin_hashes")
    /\ Known(pos + 4 * loc.entry_cnt)
    /\ LET w == 4 * loc.entry_cnt
       IN  IF Avail(w) < w THEN RaiseAt(pos + Avail(w), ShortReadEof(w))
           ELSE GoRoot(pos + w, IF loc.entry_cnt > 0 THEN "bin_entry" ELSE "bin_return",
                       [loc EXCEPT !.entry_type_hashes =
                                       [i \in 1..loc.entry_cnt |-> U32At(buf, pos + 4 * (i - 1))]])

\* bin_parser.py:73-77
BinEntryHeader ==
    /\ mode = "parse_bin"
    /\ AtRoot("bin_entry")
    /\ Known(pos + 10)
    /\ IF Avail(10) < 10 THEN RaiseAt(pos + Avail(10), ShortReadEof(10))
       ELSE LET c == U16At(buf, pos + 8)
            IN  GoRoot(pos + 10, IF c > 0 THEN "bin_fhash" ELSE "bin_entry_end",
                       [loc EXCEPT !.entry_start = pos, !.entry_len = U32At(buf, pos),
                                   !.entry_hash = U32At(buf, pos + 4), !.field_cnt = c,
                                   !.left = c, !.fields = <<>>])

\* bin_parser.py:78
BinFieldHash ==
    /\ mode = "parse_bin"
    /\ AtRoot("bin_fhash")
    /\ Known(pos + 4)
    /\ IF Avail(4) < 4 THEN RaiseAt(pos + Avail(4), ShortReadEof(4))
       ELSE GoRoot(pos + 4, "bin_ftype", [loc EXCEPT !.field_hash = U32At(buf, pos)])

\* bin_parser.py:79-84
BinFieldType ==
    /\ mode = "parse_bin"
    /\ AtRoot("bin_ftype")
    /\ Known(pos + 1)
    /\ IF Avail(1) < 1 THEN Raise(Exc("IndexError", "eof", -1, -1))
       ELSE LET type_id == U8At(buf, pos)
            IN  GoRoot(pos + 1, IF loc.left > 1 THEN "bin_fhash" ELSE "bin_entry_end",
                       [loc EXCEPT !.fields = Append(@, [field  |-> Unhash(loc.field_hash),
                                                         typeId |-> type_id,
                                                         type   |-> TypeName(type_id)]),
                                   !.left = @ - 1])

\* A faulty variant of SeekTarget: the span starts after the length field.
SeekTargetAfterLength == loc.entry_start + 4 + loc.entry_len

\* The position of bin_parser.py:86.
SeekTarget == loc.entry_start + loc.entry_len

\* bin_parser.py:86-93
BinEntryEnd ==
    /\ mode = "parse_bin"
    /\ AtRoot("bin_entry_end")
    /\ GoRoot(SeekTarget,
              IF loc.idx + 1 < loc.entry_cnt THEN "bin_entry" ELSE "bin_return",
              [loc EXCEPT !.entries = Append(@, [entry    |-> Unhash(loc.entry_hash),
                                                 typeHash |-> loc.entry_type_hashes[loc.idx + 1],
                                                 fieldCnt |-> loc.field_cnt,
                                                 fields   |-> loc.fields]),
                          !.idx = @ + 1])

\* bin_parser.py:95-100
BinReturn ==
    /\ mode = "parse_bin"
    /\ AtRoot("bin_return")
    /\ Finish([version |-> loc.version, links |-> loc.links, entries |-> loc.entries])

ParseBinStep ==
    \/ BinWrapper
    \/ BinMagic
    \/ BinVersion
    \/ BinSanity
    \/ BinLinkCount
    \/ BinLinkChar
    \/ BinHashes
    \/ BinEntryHeader
    \/ BinFieldHash
    \/ BinFieldType
    \/ BinEntryEnd
    \/ BinReturn

-----------------------------------------------------------------------------
(* The calls.  Each specification is one entry point on an arbitrary file  *)
(* within the bounds.                                                      *)

\* The hash tables loaded: none, or one that names hash 1 "__type" and
\* hashes 2 and 3 "a".
HdbTable   == <<[k |-> 1, v |-> S_type], [k |-> 2, v |-> S_a], [k |-> 3, v |-> S_a]>>
HdbChoices == {<<>>, HdbTable}

WadIdle ==
    /\ wad_bytes = <<>>
    /\ n = 0
    /\ chunks = <<>>
    /\ names = <<>>
    /\ wpc = "none"
    /\ werr = "none"

InitCursor ==
    /\ WadIdle
    /\ buf = <<>>
    /\ flen = -1
    /\ pos = 0
    /\ stack = <<>>
    /\ ret = NoValue
    /\ st = "run"
    /\ err = Exc("none", "none", -1, -1)
    /\ result = NoValue

\* read_value(Cursor(data), typ, hdb)
Init ==
    /\ InitCursor
    /\ hdb \in HdbChoices
    /\ mode = "read_value"
    /\ pc = "rv_call"
    /\ loc \in {[typ |-> t] : t \in 0..255}

Next ==
    \/ Supply
    \/ EndOfFile
    \/ ReadValueStep
    \/ ValueCall
    \/ ValueReturned

Spec == Init /\ [][Next]_vars

\* parse_full_prop(data, hdb)
InitFull ==
    /\ InitCursor
    /\ hdb = HdbTable
    /\ mode = "parse_full_prop"
    /\ pc = "magic"
    /\ loc = PropLocals

NextFull ==
    \/ Supply
    \/ EndOfFile
    \/ ReadValueStep
    \/ FullMagic
    \/ HeaderStep
    \/ FullFieldCount
    \/ FullFieldHash
    \/ FullFieldType
    \/ FullFieldStore
    \/ FullEntryEnd

SpecFull == InitFull /\ [][NextFull]_vars

\* read_prop(data)
InitProp ==
    /\ InitCursor
    /\ hdb = <<>>
    /\ mode = "read_prop"
    /\ pc = "magic"
    /\ loc = PropLocals

NextProp ==
    \/ Supply
    \/ EndOfFile
    \/ PropMagic
    \/ HeaderStep
    \/ PropFieldCount
    \/ PropRewind
    \/ PropTake

SpecProp == InitProp /\ [][NextProp]_vars

\* Any of the three decodes over a Cursor: read_value, parse_full_prop or
\* read_prop.
InitDecode == Init \/ InitFull \/ InitProp

NextDecode ==
    \/ Supply
    \/ EndOfFile
    \/ ReadValueStep
    \/ ValueCall
    \/ ValueReturned
    \/ HeaderStep
    \/ FullMagic
    \/ FullFieldCount
    \/ FullFieldHash
    \/ FullFieldType
    \/ FullFieldStore
    \/ FullEntryEnd
    \/ PropMagic
    \/ PropFieldCount
    \/ PropRewind
    \/ PropTake

SpecDecode == InitDecode /\ [][NextDecode]_vars

\* parse_bin(path, unhasher)
InitBin ==
    /\ InitCursor
    /\ hdb \in HdbChoices
    /\ mode = "parse_bin"
    /\ pc = "bin_ptch"
    /\ loc = BinLocals

NextBin ==
    \/ Supply
    \/ EndOfFile
    \/ FixLength
    \/ SupplyRest
    \/ ParseBinStep

SpecBin == InitBin /\ [][NextBin]_vars

\* read_value(Cursor(data), Type.LIST, hdb) on the example list: element
\* tag U8, a byteSize within the bound, count 5 and the bytes 01 02 03 04 05.
MaxExampleSize == 12
ExampleBytes(size) == <<T_U8>> \o LE32(size) \o LE32(5) \o <<1, 2, 3, 4, 5>>

InitExample ==
    /\ WadIdle
    /\ \E size \in 0..MaxExampleSize : buf = ExampleBytes(size)
    /\ flen = Len(buf)
    /\ hdb = <<>>
    /\ pos = 0
    /\ stack = <<>>
    /\ ret = NoValue
    /\ st = "run"
    /\ err = Exc("none", "none", -1, -1)
    /\ result = NoValue
    /\ mode = "read_value"
    /\ pc = "rv_call"
    /\ loc \in {[typ |-> t] : t \in {T_LIST, T_LIST2}}

NextExample ==
    \/ ValueCall
    \/ Dispatch
    \/ ListType
    \/ ListSize
    \/ ListCount
    \/ ListCall
    \/ ReadPrimitive
    \/ ListElement
    \/ ListEnd
    \/ ValueReturned

SpecExample == InitExample /\ [][NextExample]_vars

-----------------------------------------------------------------------------
(* Properties of extract_wad (SpecWad).                                    *)

\* Table slot j as the file holds it, and whether it lies within the file.
SlotFits(j)  == TABLE_OFFSET + j * ENTRY_SIZE + ENTRY_SIZE <= Len(wad_bytes)
SlotEntry(j) == EntryAt(TABLE_OFFSET + j * ENTRY_SIZE)
AllZero(e)   == e.h = H0 /\ e.loc = 0 /\ e.size = 0
InBounds(e)  == e.size > 0 /\ e.loc + e.size <= Len(wad_bytes)
Returned     == wpc \in {"names", "write", "done"}

\* The first slot at which the scan has to stop.
StopIdx ==
    CHOOSE j \in 0..MAX_CHUNKS :
        /\ (j = MAX_CHUNKS \/ ~SlotFits(j) \/ AllZero(SlotEntry(j)))
        /\ \A i \in 0..(j - 1) : SlotFits(i) /\ ~AllZero(SlotEntry(i))

\* C1: every hash -> payload pair of the mapping is the (decompressed)
\* payload of a scanned table entry with size > 0 and offset + size within
\* the buffer; an entry whose span runs past the buffer end contributes
\* nothing.
C1_PayloadsInBounds ==
    \A i \in DOMAIN chunks :
        \E j \in 0..(n - 1) :
            /\ SlotFits(j)
            /\ SlotEntry(j).h = chunks[i].k
            /\ InBounds(SlotEntry(j))
            /\ chunks[i].v = MaybeDecompress(Payload(SlotEntry(j))).out

\* C1 witness: extract_wad returned a non-empty mapping after scanning an
\* entry whose span runs past the buffer end.
C1_Witness ==
    /\ wpc = "done"
    /\ chunks # <<>>
    /\ \E j \in 0..(n - 1) :
           SlotEntry(j).size > 0 /\ SlotEntry(j).loc + SlotEntry(j).size > Len(wad_bytes)

\* The scanned slots that carry hash h and survive the bounds check.
SurvivingSlots(h) ==
    {j \in 0..(n - 1) : SlotFits(j) /\ SlotEntry(j).h = h /\ InBounds(SlotEntry(j))}

LastOf(S) == CHOOSE j \in S : \A i \in S : i <= j

\* C2: a hash carried by two surviving scanned entries is in the mapping
\* exactly once, with the payload of the later entry.
C2_LastWriteWins ==
    \A h \in {SlotEntry(j).h : j \in 0..(n - 1)} :
        Cardinality(SurvivingSlots(h)) >= 2 =>
            /\ Cardinality({i \in DOMAIN chunks : chunks[i].k = h}) = 1
            /\ DictGet(chunks, h)
                 = MaybeDecompress(Payload(SlotEntry(LastOf(SurvivingSlots(h))))).out

\* C2 witness: extract_wad returned after two surviving entries carried the
\* same hash and different payloads.
C2_Witness ==
    /\ wpc = "done"
    /\ \E h \in {SlotEntry(j).h : j \in 0..(n - 1)} :
          \E a, b \in SurvivingSlots(h) :
              a < b /\ Payload(SlotEntry(a)) # Payload(SlotEntry(b))

\* C3: the scan never goes past the first slot that is the scan bound, does
\* not fit in the buffer or is all zero; it ends exactly there; and every
\* key of the mapping comes from a slot before it.
C3_ScanStops ==
    /\ n <= StopIdx
    /\ Returned => n = StopIdx
    /\ \A i \in DOMAIN chunks :
           \E j \in 0..(StopIdx - 1) : SlotEntry(j).h = chunks[i].k

\* C3 witness: one valid entry, then a zero entry, then a non-zero entry
\* that fits: extract_wad returned a one-element mapping.
C3_Witness ==
    /\ wpc = "done"
    /\ n = 1
    /\ Len(chunks) = 1
    /\ SlotFits(2)
    /\ AllZero(SlotEntry(1))
    /\ InBounds(SlotEntry(2))

\* C4: when extract_wad returns, every valid entry that follows a skipped
\* (size 0 or out-of-bounds, not all-zero) entry and precedes the stop is
\* in the mapping.
C4_SkipContinues ==
    Returned =>
        \A i, j \in 0..(StopIdx - 1) :
            (i < j /\ ~InBounds(SlotEntry(i)) /\ InBounds(SlotEntry(j)))
                => DictHas(chunks, SlotEntry(j).h)

\* C4 witness: extract_wad returned after a skipped entry with a valid entry
\* behind it.
C4_Witness ==
    /\ wpc = "done"
    /\ \E i, j \in 0..(StopIdx - 1) :
           /\ i < j
           /\ ~InBounds(SlotEntry(i))
           /\ InBounds(SlotEntry(j))
           /\ DictHas(chunks, SlotEntry(j).h)

\* C5: the table scan and the manifest step never raise.
C5_NeverRaises == wpc # "raised"

-----------------------------------------------------------------------------
(* Properties of read_value (Spec).                                        *)

SpanTags == {T_LIST, T_LIST2, T_MAP, T_EMBED, T_POINTER}

\* The offset just after the byteSize field of the value read_value was
\* called on: after the element tag and the size of a list, after the two
\* tags and the size of a map, after the hash and the size of an embed.
TopSpanStart ==
    CASE loc.typ \in {T_LIST, T_LIST2}    -> 5
      [] loc.typ = T_MAP                  -> 6
      [] loc.typ \in {T_EMBED, T_POINTER} -> 8

\* The innermost call is of a span tag and has read its last element.
AtSpanEnd ==
    /\ st = "run"
    /\ stack # <<>>
    /\ Top.t \in SpanTags
    /\ Top.pc \in {"list_loop", "map_loop", "emb_loop"}
    /\ Top.cnt = 0

\* The step is a normal return of the innermost call.
Returns == st = "run" /\ stack # <<>> /\ st' = "run" /\ Len(stack') = Len(stack) - 1

\* C6: when read_value returns normally for a List, List2, Map, Embed or
\* Pointer tag the cursor is at spanStart + byteSize, spanStart being the
\* offset just after the byteSize field; when the bytes consumed differ
\* from byteSize the call raises and returns no tree.
C6_SpanChecked ==
    /\ []((st = "done" /\ loc.typ \in SpanTags) =>
              pos = TopSpanStart + U32At(buf, TopSpanStart - 4))
    /\ [][/\ (Returns /\ Top.t \in SpanTags) => (pos' = Top.start + Top.size /\ pos' = pos)
          /\ (AtSpanEnd /\ pos # Top.start + Top.size) =>
                 (st' = "raised" /\ err' = SizeMismatch /\ result' = NoValue)]_vars

\* C6 witness: read_value returned a list of two elements.
C6_Witness ==
    /\ st = "done"
    /\ loc.typ = T_LIST
    /\ result.k = "list"
    /\ Len(result.v) = 2
    /\ pos = 5 + U32At(buf, 1)

\* C8: every error of a read past the end of the buffer carries the offset
\* and the requested length.
C8_EofCarriesOffsetAndLength ==
    (st = "raised" /\ err.what = "eof") => (err.offset # -1 /\ err.requested # -1)

\* The bytes of an Option value read_value was called on: the nested tag
\* and the count.
TopOption == loc.typ = T_OPTION /\ Len(buf) >= 2
OptionTag   == buf[1]
OptionCnt   == buf[2]

\* C10: an Option with count byte 0 decodes to the empty option and moves
\* the cursor by exactly 2 bytes, whatever the nested tag byte; with a
\* non-zero count byte exactly one nested value of the nested tag is
\* decoded, and it is the value of the option.
C10_Option ==
    /\ []((TopOption /\ OptionCnt = 0 /\ st # "run") =>
              (st = "done" /\ result = None /\ pos = 2))
    /\ []((TopOption /\ OptionCnt # 0 /\ st = "done"
              /\ OptionTag \in PrimTags /\ Prim(OptionTag).cnt = 1) =>
              (/\ SameValue(result, PrimRead(OptionTag, buf, 2))
               /\ pos = 2 + Prim(OptionTag).w))
    /\ [][/\ (At("opt_count") /\ Len(buf) > pos /\ buf[pos + 1] = 0) =>
                 (Returns /\ ret' = None /\ pos' = pos + 1)
          /\ (At("opt_count") /\ Len(buf) > pos /\ buf[pos + 1] # 0) =>
                 (/\ st' = "run"
                  /\ Len(stack') = Len(stack) + 1
                  /\ stack'[Len(stack')].t = Top.vt
                  /\ stack'[Len(stack')].pc = "dispatch"
                  /\ pos' = pos + 1)
          /\ At("opt_ret") => (Returns /\ ret' = ret /\ pos' = pos)]_vars

\* C10 witness: read_value returned the empty option for a nested tag byte
\* that is no tag.
C10_Witness ==
    /\ st = "done"
    /\ TopOption
    /\ OptionTag = 255
    /\ OptionCnt = 0
    /\ result = None
    /\ pos = 2

-----------------------------------------------------------------------------
(* Properties of the root-entry readers (SpecBin, SpecFull, SpecProp).     *)

\* C7: after a root entry is read the cursor is at the offset just after
\* the entry's length field plus the entry length.
C7_RootEntrySpan ==
    /\ (mode = "parse_bin" /\ st = "run" /\ pc \in {"bin_entry", "bin_return"}
           /\ loc.idx >= 1)
          => pos = loc.entry_start + 4 + loc.entry_len
    /\ (mode \in {"parse_full_prop", "read_prop"} /\ st = "run"
           /\ pc \in {"entry_len", "return"} /\ loc.idx >= 2)
          => pos = loc.slice_start + loc.entry_len

\* C9: parse_bin never returns a field whose type id is no tag: neither of
\* Type nor of TYPE_NAMES.
C9_UnknownTagFatal ==
    (mode = "parse_bin" /\ st = "done") =>
        \A i \in DOMAIN result.entries :
            \A j \in DOMAIN result.entries[i].fields :
                result.entries[i].fields[j].typeId \in TypeTags \cup DOMAIN TYPE_NAMES

-----------------------------------------------------------------------------
(* Properties of the header readers (SpecBin, SpecProp, SpecFull).         *)

\* The offset of the inner magic in a file parse_bin reads, and the two u32
\* after it.
BinHeaderAt == IF Len(buf) >= 4 /\ Slice(buf, 0, 4) = S_PTCH THEN 12 ELSE 0
FirstU32    == U32At(buf, BinHeaderAt + 4)
SecondU32   == U32At(buf, BinHeaderAt + 8)

\* parse_bin has read the two u32 and gone on.
PastVersion == mode = "parse_bin" /\ pc \notin {"bin_ptch", "bin_magic", "bin_ver"}

\* parse_bin raised on the two u32, which it read in full.
VersionRefused ==
    /\ mode = "parse_bin"
    /\ pc = "bin_ver"
    /\ st = "raised"
    /\ Len(buf) >= BinHeaderAt + 12

\* C11 as stated: parse_bin goes on only when exactly one of the two u32
\* after the magic is <= 10.
C11_ExactlyOneQualifies ==
    PastVersion => ((FirstU32 <= 10) # (SecondU32 <= 10))

\* C11 as the code has it: the first u32 is the version whenever it is
\* <= 10, also when both are; the second is the version when only it is
\* <= 10; parse_bin raises ValueError exactly when neither is.
C11_VersionHeuristic ==
    /\ PastVersion =>
          IF FirstU32 <= 10
          THEN loc.version = FirstU32 /\ loc.entry_cnt = SecondU32
          ELSE SecondU32 <= 10 /\ loc.version = SecondU32 /\ loc.entry_cnt = FirstU32
    /\ VersionRefused =>
          (/\ FirstU32 > 10
           /\ SecondU32 > 10
           /\ err = Exc("ValueError", "version", -1, -1))

\* C11 witness: parse_bin returned for a file whose two u32 are both <= 10
\* and differ, the first taken as the version.
C11_Witness ==
    /\ PastVersion
    /\ st = "done"
    /\ FirstU32 <= 10
    /\ SecondU32 <= 10
    /\ FirstU32 # SecondU32
    /\ result.version = FirstU32

\* The file starts with the patch-wrapper magic.
Wrapped == Len(buf) >= 4 /\ Slice(buf, 0, 4) = S_PTCH

\* The decoder has looked at the inner magic at offset 12: it read it, or
\* found the file to end before offset 16.
InnerMagicSeen == Len(buf) >= 16 \/ flen # -1

\* C12: on a file that starts with PTCH the header reader goes straight to
\* the inner magic at offset 12: it does not fail before looking at it,
\* goes on exactly when it is PROP, and fails on a magic that is neither
\* PTCH nor PROP.
C12_WrapperSkipped ==
    /\ (Wrapped /\ st = "raised") => InnerMagicSeen
    /\ (Wrapped /\ st = "raised" /\ Len(buf) >= 16 /\ Slice(buf, 12, 16) = S_PROP)
          => pc \notin {"magic", "bin_ptch", "bin_magic"}
    /\ (Wrapped /\ pc \notin {"magic", "bin_ptch", "bin_magic"})
          => (Len(buf) >= 16 /\ Slice(buf, 12, 16) = S_PROP)
    /\ (Len(buf) >= 4 /\ ~Wrapped /\ Slice(buf, 0, 4) # S_PROP)
          => (/\ pc \in {"magic", "bin_ptch", "bin_magic"}
              /\ st = "raised" => err.what = "magic")

\* A root entry has just been stored: loc.key_hash is its own name-hash.
EntryStored ==
    /\ mode \in {"parse_full_prop", "read_prop"}
    /\ st = "run"
    /\ pc \in {"entry_len", "return"}
    /\ loc.idx >= 2

\* C13: a root entry is stored under the name-hash read from inside its own
\* span: as read_prop keeps it, the hash; as parse_full_prop keeps it, the
\* name the hash table gives the hash.
C13_KeyedByOwnHash ==
    /\ (EntryStored /\ mode = "read_prop") => DictHas(loc.entries, loc.key_hash)
    /\ (EntryStored /\ mode = "parse_full_prop")
          => NodeHas(loc.entries, Val("str", HdbGet(loc.key_hash)))

-----------------------------------------------------------------------------
(* Properties of read_value on the example list (SpecExample).             *)

ExampleSize   == U32At(buf, 1)
ExampleResult == Val("list", [i \in 1..5 |-> Val("int", i)])

\* C14 as stated: with byteSize 5 the example decodes to [1,2,3,4,5], with
\* byteSize 4 it raises the size mismatch.
C14_ExampleAsStated ==
    /\ (st # "run" /\ ExampleSize = 5) => (st = "done" /\ result = ExampleResult)
    /\ (st # "run" /\ ExampleSize = 4) => (st = "raised" /\ err = SizeMismatch)

\* C14 as the code has it: byteSize counts the 4-byte count field too, so
\* the example decodes to [1,2,3,4,5] with byteSize 9, the cursor ending at
\* offset 14, and raises the size mismatch with every other byteSize, 5 and
\* 4 included.
C14_ListExample ==
    st # "run" =>
        IF ExampleSize = 9
        THEN st = "done" /\ result = ExampleResult /\ pos = 14
        ELSE st = "raised" /\ err = SizeMismatch /\ result = NoValue

\* C14 witness: the example with byteSize 9 decoded to [1,2,3,4,5].
C14_Witness ==
    /\ st = "done"
    /\ buf = ExampleBytes(9)
    /\ result = ExampleResult

-----------------------------------------------------------------------------
(* Properties of the field records of an object.                           *)

\* The object of the root entry, or of the innermost Embed/Pointer, is
\* complete: all its field records are read and its span assertion holds.
RootObjectComplete ==
    /\ mode = "parse_full_prop" /\ st = "run" /\ pc = "entry_end" /\ stack = <<>>
    /\ EntrySpanOk
EmbedComplete ==
    /\ st = "run" /\ stack # <<>> /\ Top.pc = "emb_loop" /\ Top.cnt = 0
    /\ pos = Top.start + Top.size

\* C15: a decoded Embed/Pointer and a decoded root entry hold exactly
\* fieldCount fields next to the type key, one per field record read; no
\* record is dropped or merged, whatever the field name-hashes are.
C15_OneFieldPerRecord ==
    /\ RootObjectComplete => Len(loc.embed) = 1 + U16At(buf, loc.slice_start + 4)
    /\ EmbedComplete => Len(Top.acc) = 1 + U16At(buf, Top.start)

-----------------------------------------------------------------------------
(* Properties of the Cursor position (SpecDecode).                         *)

\* A read failed at the end of the buffer in this step.
ReadFails == st = "run" /\ st' = "raised" /\ err'.what = "eof"

\* The step is the 6-byte rewind of read_prop.
Rewinds == mode = "read_prop" /\ pc = "prop_rewind" /\ pc' = "prop_take"

\* C16: in every state of a decode over a Cursor, the state an error is
\* raised in included, 0 <= pos <= len(buffer); a read that fails leaves
\* pos where it was; the 6-byte rewind of read_prop lands on the start of
\* the current root entry's span, never before it.
C16_CursorInBounds ==
    /\ [](0 <= pos /\ pos <= Len(buf) /\ (flen # -1 => pos <= flen))
    /\ [][ReadFails => pos' = pos]_vars
    /\ [][Rewinds => (pos' = pos - 6 /\ pos' >= loc.slice_start)]_vars
    /\ [](mode = "read_prop" /\ pc = "prop_take" => pos = loc.slice_start)

\* C16 witness: read_prop rewound to the start of a root entry past the first
\* bytes of the buffer and the _take of the entry failed there.
C16_Witness ==
    /\ mode = "read_prop" /\ st = "raised" /\ pc = "prop_take"
    /\ err = Exc("ValueError", "eof", pos, -1)
    /\ pos = loc.slice_start /\ pos > 0
    /\ pos + loc.entry_len > Len(buf)

=============================================================================
